---- MODULE Spec2Model ----
(***************************************************************************)
(* Model of main.py: the validated fields (Field, Name, Phone, Birthday),  *)
(* Record, AddressBook and the command interpreter Assistant.              *)
(*                                                                         *)
(* A Python str is a sequence of one-character strings.  A text that the   *)
(* program formats (an f-string, a join) is the concatenation of its       *)
(* literal pieces, each a one-element sequence, and of the str values put  *)
(* between them.  An optional object (None or an object) is a sequence of  *)
(* length 0 or 1.  Record objects live in heap, a function from object     *)
(* identities to [name, phones, birthday]; the mapping AddressBook.data    *)
(* and the list AddressBook._values hold identities.                       *)
(***************************************************************************)
EXTENDS Integers, Sequences, FiniteSets, TLC

VARIABLES
    heap,      \* the Record objects: identity -> [name, phones, birthday]
    data,      \* AddressBook.data (main.py:92): name -> Record identity
    _values,   \* AddressBook._values (main.py:93): list of Record identities
    running,   \* the `while True` loop of Assistant.run has not been left
    command,   \* the line read last by input() (main.py:133)
    output,    \* the lines printed while that line was processed
    raised,    \* the exception parse_command raised on it, "" when none
    result     \* the last direct call of a Record or AddressBook method

vars == <<heap, data, _values, running, command, output, raised, result>>

----------------------------------------------------------------------------
(* Bounds of the model.                                                    *)

MaxRecords == 3
MaxPhones == 2
MaxPageSize == 3

----------------------------------------------------------------------------
(* Python str operations.                                                  *)

SP == " "
Digits == {"0", "1", "2", "3", "4", "5", "6", "7", "8", "9"}
UpperCase == <<"A", "B", "C", "D", "E", "F", "G", "H", "I", "J", "K", "L", "M",
               "N", "O", "P", "Q", "R", "S", "T", "U", "V", "W", "X", "Y", "Z">>
LowerCase == <<"a", "b", "c", "d", "e", "f", "g", "h", "i", "j", "k", "l", "m",
               "n", "o", "p", "q", "r", "s", "t", "u", "v", "w", "x", "y", "z">>

\* str.lower() on one character
LowerChar(c) ==
    IF \E i \in 1..26 : UpperCase[i] = c
    THEN LowerCase[CHOOSE i \in 1..26 : UpperCase[i] = c]
    ELSE c

\* str.lower()
Lower(s) == [i \in 1..Len(s) |-> LowerChar(s[i])]

\* str.isdigit(): non-empty and every character a digit
IsDigit(s) == Len(s) > 0 /\ \A i \in 1..Len(s) : s[i] \in Digits

\* str.startswith(prefix)
StartsWith(s, prefix) ==
    Len(s) >= Len(prefix) /\ SubSeq(s, 1, Len(prefix)) = prefix

\* `c in s` for a one-character c
Contains(s, c) == \E i \in 1..Len(s) : s[i] = c

\* str.split(sep, maxsplit) for a one-character sep
RECURSIVE SplitSep(_, _, _)
SplitSep(s, sep, maxsplit) ==
    IF maxsplit = 0 \/ ~Contains(s, sep)
    THEN <<s>>
    ELSE LET i == CHOOSE k \in 1..Len(s) :
                      s[k] = sep /\ \A j \in 1..(k - 1) : s[j] # sep
         IN  <<SubSeq(s, 1, i - 1)>>
                 \o SplitSep(SubSeq(s, i + 1, Len(s)), sep, maxsplit - 1)

\* str.split(): split on runs of whitespace, no empty strings
RECURSIVE SplitWs(_)
SplitWs(s) ==
    IF s = <<>> THEN <<>>
    ELSE IF s[1] = SP THEN SplitWs(Tail(s))
    ELSE LET n == IF Contains(s, SP)
                  THEN (CHOOSE k \in 1..Len(s) :
                           s[k] = SP /\ \A j \in 1..(k - 1) : s[j] # SP) - 1
                  ELSE Len(s)
         IN  <<SubSeq(s, 1, n)>> \o SplitWs(SubSeq(s, n + 1, Len(s)))

\* sep.join(items), the items being texts
RECURSIVE Join(_, _)
Join(sep, items) ==
    IF items = <<>> THEN <<>>
    ELSE IF Len(items) = 1 THEN items[1]
    ELSE items[1] \o sep \o Join(sep, Tail(items))

\* the value of a decimal digit string
RECURSIVE DigitsValue(_)
DigitsValue(s) ==
    IF s = <<>> THEN 0
    ELSE 10 * DigitsValue(SubSeq(s, 1, Len(s) - 1))
           + (CHOOSE d \in 0..9 : <<"0", "1", "2", "3", "4", "5", "6", "7", "8", "9">>[d + 1] = s[Len(s)])

\* list[start:end] of Python: negative indices count from the end, both
\* indices are clipped to the list
Slice(list, start, end) ==
    LET n == Len(list)
        Clip(i) == IF i < 0 THEN (IF i + n < 0 THEN 0 ELSE i + n)
                   ELSE (IF i > n THEN n ELSE i)
    IN  SubSeq(list, Clip(start) + 1, Clip(end))

----------------------------------------------------------------------------
(* Outcomes of a call: a returned value or a raised exception.             *)

NoText == <<>>
Return(v) == [exc |-> "", msg |-> NoText, val |-> v]
Raise(type, message) == [exc |-> type, msg |-> message, val |-> <<>>]
Raised(o) == o.exc # ""

ValueError == "ValueError"
IndexError == "IndexError"
SystemExit == "SystemExit"

InvalidPhoneMsg == <<"Invalid phone number format">>
InvalidBirthdayMsg == <<"Invalid birthday date format. Use YYYY-MM-DD format.">>
PhoneNotFoundMsg == <<"Phone number not found">>

----------------------------------------------------------------------------
(* Field, Name, Phone, Birthday.  A field object is modelled by its _value. *)

None == <<>>
\* Python truthiness of None, a str or a list
Truthy(x) == x # <<>>

\* Field.__init__: stores the value, no check
Field_init(value) == Return(value)

\* Name(value): Name inherits Field.__init__
Name_init(value) == Field_init(value)

\* Phone.is_valid_phone
is_valid_phone(phone) == Len(phone) = 10 /\ IsDigit(phone)

\* Phone.__init__
Phone_init(value) ==
    IF ~is_valid_phone(value) THEN Raise(ValueError, InvalidPhoneMsg)
    ELSE Field_init(value)

\* Phone.value setter
Phone_set(new_value) ==
    IF ~is_valid_phone(new_value) THEN Raise(ValueError, InvalidPhoneMsg)
    ELSE Return(new_value)

\* datetime: the number of days of a month
IsLeap(year) == year % 4 = 0 /\ (year % 100 # 0 \/ year % 400 = 0)
DaysInMonth(year, month) ==
    IF month = 2 THEN (IF IsLeap(year) THEN 29 ELSE 28)
    ELSE IF month \in {4, 6, 9, 11} THEN 30 ELSE 31

\* datetime.strptime(s, '%Y-%m-%d') succeeds: %Y is four digits, %m is
\* 1[0-2]|0[1-9]|[1-9], %d is 3[0-1]|[1-2]\d|0[1-9]|[1-9]| [1-9], nothing
\* may follow, and the date must exist (year >= 1)
strptime_ok(s) ==
    LET parts == SplitSep(s, "-", Len(s))
    IN  /\ Len(parts) = 3
        /\ Len(parts[1]) = 4 /\ IsDigit(parts[1])
        /\ Len(parts[2]) \in {1, 2} /\ IsDigit(parts[2])
        /\ DigitsValue(parts[2]) \in 1..12
        /\ LET dd == IF Len(parts[3]) = 2 /\ parts[3][1] = SP
                     THEN (IF parts[3][2] = "0" THEN <<>> ELSE Tail(parts[3]))
                     ELSE parts[3]
           IN  /\ Len(dd) \in {1, 2} /\ IsDigit(dd)
               /\ DigitsValue(dd) \in 1..31
               /\ DigitsValue(parts[1]) >= 1
               /\ DigitsValue(dd)
                    <= DaysInMonth(DigitsValue(parts[1]), DigitsValue(parts[2]))

\* Birthday(value): Birthday defines no __init__, so this is Field.__init__
Birthday_init(value) == Field_init(value)

\* Birthday.value setter
Birthday_set(new_value) ==
    IF strptime_ok(new_value) THEN Return(new_value)
    ELSE Raise(ValueError, InvalidBirthdayMsg)

----------------------------------------------------------------------------
(* Record.  A call that may change the record yields [out, rec]: the       *)
(* outcome of the call and the record after it.                            *)

\* Record.__init__
Record_init(name, birthday) ==
    [name |-> Name_init(name).val,
     phones |-> <<>>,
     birthday |-> IF Truthy(birthday) THEN <<Birthday_init(birthday).val>>
                  ELSE None]

\* the position of the first phone whose value is `phone`, 0 when none is
FirstMatch(phones, phone) ==
    IF \E i \in 1..Len(phones) : phones[i] = phone
    THEN CHOOSE i \in 1..Len(phones) :
             phones[i] = phone /\ \A j \in 1..(i - 1) : phones[j] # phone
    ELSE 0

\* Record.add_phone
add_phone(rec, phone) ==
    LET p == Phone_init(phone)
    IN  IF Raised(p) THEN [out |-> p, rec |-> rec]
        ELSE [out |-> Return(None),
              rec |-> [rec EXCEPT !.phones = Append(@, p.val)]]

\* Record.remove_phone
remove_phone(rec, phone) ==
    LET i == FirstMatch(rec.phones, phone)
    IN  [out |-> Return(None),
         rec |-> IF i = 0 THEN rec
                 ELSE [rec EXCEPT !.phones =
                          SubSeq(@, 1, i - 1) \o SubSeq(@, i + 1, Len(@))]]

\* edit_phone with the `break` after the assignment left out: every match
\* is replaced
edit_phone_no_break(rec, old_phone, new_phone) ==
    IF FirstMatch(rec.phones, old_phone) = 0
    THEN [out |-> Raise(ValueError, PhoneNotFoundMsg), rec |-> rec]
    ELSE LET s == Phone_set(new_phone)
         IN  IF Raised(s) THEN [out |-> s, rec |-> rec]
             ELSE [out |-> Return(None),
                   rec |-> [rec EXCEPT !.phones =
                               [i \in 1..Len(@) |->
                                   IF @[i] = old_phone THEN s.val ELSE @[i]]]]

\* Record.edit_phone
edit_phone(rec, old_phone, new_phone) ==
    LET i == FirstMatch(rec.phones, old_phone)
    IN  IF i = 0 THEN [out |-> Raise(ValueError, PhoneNotFoundMsg), rec |-> rec]
        ELSE LET s == Phone_set(new_phone)
             IN  IF Raised(s) THEN [out |-> s, rec |-> rec]
                 ELSE [out |-> Return(None),
                       rec |-> [rec EXCEPT !.phones[i] = s.val]]

\* Record.find_phone: the matching phone, or None
find_phone(rec, phone) ==
    LET i == FirstMatch(rec.phones, phone)
    IN  IF i = 0 THEN Return(None) ELSE Return(<<rec.phones[i]>>)

\* Record.__str__
Record_str(rec) ==
    LET birthday_info == IF Truthy(rec.birthday)
                         THEN <<", Birthday: ">> \o rec.birthday[1]
                         ELSE <<>>
    IN  <<"Contact name: ">> \o rec.name \o <<", phones: ">>
            \o Join(<<"; ">>, rec.phones) \o birthday_info

----------------------------------------------------------------------------
(* Inputs.                                                                 *)

John == <<"j", "o", "h", "n">>
Bob == <<"b", "o", "b">>
Phone1 == <<"1", "2", "3", "4", "5", "6", "7", "8", "9", "0">>
Phone2 == <<"0", "9", "8", "7", "6", "5", "4", "3", "2", "1">>
ShortPhone == <<"1", "2", "3">>
AlphaPhone == <<"1", "2", "3", "4", "5", "a", "b", "c", "d", "e">>
GoodDate == <<"1", "9", "9", "0", "-", "0", "5", "-", "0", "1">>
LeapDate == <<"1", "9", "9", "2", "-", "2", "-", "2", "9">>
NoSuchDay == <<"1", "9", "9", "0", "-", "0", "2", "-", "3", "0">>
NotADate == <<"s", "o", "o", "n">>

NameInputs == {John, Bob}
PhoneInputs == {Phone1, Phone2, ShortPhone, AlphaPhone}
BirthdayInputs == {GoodDate, LeapDate, NoSuchDay, NotADate}

----------------------------------------------------------------------------
(* State shared by the specifications.                                     *)

NoCall == [op |-> "", args |-> <<>>, out |-> Return(None)]
Call(op, args, out) == [op |-> op, args |-> args, out |-> out]

EmptyMap == [k \in {} |-> 0]

\* the interpreter's variables before the first line is read
Idle == running = TRUE /\ command = <<>> /\ output = <<>> /\ raised = ""

----------------------------------------------------------------------------
(* SpecRecord: one Record object and the calls of its methods.             *)

TheRecord == 1

InitRecord ==
    /\ \E name \in NameInputs, birthday \in {None, GoodDate, NotADate} :
           heap = [id \in {TheRecord} |-> Record_init(name, birthday)]
    /\ data = EmptyMap
    /\ _values = <<>>
    /\ Idle
    /\ result = NoCall

RecordCall(op, args, r) ==
    /\ heap' = [heap EXCEPT ![TheRecord] = r.rec]
    /\ result' = Call(op, args, r.out)
    /\ UNCHANGED <<data, _values, running, command, output, raised>>

AddPhone ==
    \E phone \in PhoneInputs :
        /\ Len(heap[TheRecord].phones) < MaxPhones
        /\ RecordCall("add_phone", <<phone>>, add_phone(heap[TheRecord], phone))

RemovePhone ==
    \E phone \in PhoneInputs :
        /\ TheRecord \in DOMAIN heap
        /\ RecordCall("remove_phone", <<phone>>,
                      remove_phone(heap[TheRecord], phone))

EditPhone ==
    \E old_phone \in PhoneInputs, new_phone \in PhoneInputs :
        /\ TheRecord \in DOMAIN heap
        /\ RecordCall("edit_phone", <<old_phone, new_phone>>,
                      edit_phone(heap[TheRecord], old_phone, new_phone))

FindPhone ==
    \E phone \in PhoneInputs :
        /\ TheRecord \in DOMAIN heap
        /\ RecordCall("find_phone", <<phone>>,
                      [out |-> find_phone(heap[TheRecord], phone),
                       rec |-> heap[TheRecord]])

\* record.birthday.value = new_value, on a record that has a Birthday
SetBirthday ==
    \E new_value \in BirthdayInputs :
        /\ Truthy(heap[TheRecord].birthday)
        /\ LET s == Birthday_set(new_value)
           IN  RecordCall("birthday.value", <<new_value>>,
                          [out |-> s,
                           rec |-> IF Raised(s) THEN heap[TheRecord]
                                   ELSE [heap[TheRecord] EXCEPT
                                            !.birthday = <<s.val>>]])

NextRecord == AddPhone \/ RemovePhone \/ EditPhone \/ FindPhone \/ SetBirthday

SpecRecord == InitRecord /\ [][NextRecord]_vars

----------------------------------------------------------------------------
(* AddressBook.  A book is [heap, data, values]: the Record objects, the   *)
(* mapping self.data (name -> object) and the list self._values.           *)

\* the name of the i-th record of self._values
NameAt(i) == heap[_values[i]].name

Book == [heap |-> heap, data |-> data, values |-> _values]
EmptyBook == [heap |-> EmptyMap, data |-> EmptyMap, values |-> <<>>]

\* a new object: the record gets the least identity not in use
NewId(b) == CHOOSE id \in 1..(Cardinality(DOMAIN b.heap) + 1) :
                /\ id \notin DOMAIN b.heap
                /\ \A j \in 1..(id - 1) : j \in DOMAIN b.heap
New(b, rec) ==
    [b EXCEPT !.heap = [id \in DOMAIN b.heap \cup {NewId(b)} |->
                           IF id = NewId(b) THEN rec ELSE b.heap[id]]]

\* objects that neither the mapping nor the list refers to are freed
Collect(b) ==
    LET live == {b.data[k] : k \in DOMAIN b.data}
                    \cup {b.values[i] : i \in 1..Len(b.values)}
    IN  [b EXCEPT !.heap = [id \in live |-> b.heap[id]]]

\* AddressBook.add_record
add_record(b, record) ==
    LET name == b.heap[record].name
    IN  [b EXCEPT !.data = [k \in DOMAIN b.data \cup {name} |->
                               IF k = name THEN record ELSE b.data[k]],
                  !.values = Append(b.values, record)]

\* AddressBook.find: self.data.get(name, None)
find(b, name) == IF name \in DOMAIN b.data THEN <<b.data[name]>> ELSE None

\* list comprehension [record for record in values if record.name.value != name]
RECURSIVE WithoutName(_, _, _)
WithoutName(h, values, name) ==
    IF values = <<>> THEN <<>>
    ELSE IF h[values[1]].name # name
         THEN <<values[1]>> \o WithoutName(h, Tail(values), name)
         ELSE WithoutName(h, Tail(values), name)

\* delete that drops only the first entry of the list with that name, as
\* list.remove would
delete_first_entry(b, name) ==
    IF name \in DOMAIN b.data
    THEN LET i == CHOOSE k \in 1..Len(b.values) :
                      /\ b.heap[b.values[k]].name = name
                      /\ \A j \in 1..(k - 1) : b.heap[b.values[j]].name # name
         IN  [b EXCEPT !.data = [k \in DOMAIN b.data \ {name} |-> b.data[k]],
                       !.values = SubSeq(b.values, 1, i - 1)
                                    \o SubSeq(b.values, i + 1, Len(b.values))]
    ELSE b

\* AddressBook.delete
delete(b, name) ==
    IF name \in DOMAIN b.data
    THEN [b EXCEPT !.data = [k \in DOMAIN b.data \ {name} |-> b.data[k]],
                   !.values = WithoutName(b.heap, b.values, name)]
    ELSE b

\* paginated_list with start = page * page_size: pages counted from 0
paginated_list_from_zero(values, page, page_size) ==
    Slice(values, page * page_size, page * page_size + page_size)

\* AddressBook.paginated_list
paginated_list(values, page, page_size) ==
    LET start == (page - 1) * page_size
        end == start + page_size
    IN  Slice(values, start, end)

\* AddressBook.__str__
AddressBook_str(b) ==
    Join(<<"\n">>, [i \in 1..Len(b.values) |-> Record_str(b.heap[b.values[i]])])

----------------------------------------------------------------------------
(* SpecBook: one AddressBook and the calls of its methods.                 *)

InitBook ==
    /\ heap = EmptyBook.heap
    /\ data = EmptyBook.data
    /\ _values = EmptyBook.values
    /\ Idle
    /\ result = NoCall

SetBook(b) ==
    /\ heap' = Collect(b).heap
    /\ data' = b.data
    /\ _values' = b.values

Interpreter == <<running, command, output, raised>>

PageInputs == (-1)..(MaxRecords + 2)
PageSizeInputs == 1..MaxPageSize

\* book.add_record(Record(name, birthday))
AddRecord ==
    \E name \in NameInputs, birthday \in {None, GoodDate} :
        /\ Len(_values) < MaxRecords
        /\ SetBook(add_record(New(Book, Record_init(name, birthday)),
                              NewId(Book)))
        /\ result' = Call("add_record", <<name, birthday>>, Return(None))
        /\ UNCHANGED Interpreter

\* book.add_record(record) with a record that the book already holds
AddRecordAgain ==
    \E i \in 1..Len(_values) :
        /\ Len(_values) < MaxRecords
        /\ SetBook(add_record(Book, _values[i]))
        /\ result' = Call("add_record", <<NameAt(i)>>, Return(None))
        /\ UNCHANGED Interpreter

Find ==
    \E name \in NameInputs :
        /\ result' = Call("find", <<name>>, Return(find(Book, name)))
        /\ UNCHANGED <<heap, data, _values>>
        /\ UNCHANGED Interpreter

Delete ==
    \E name \in NameInputs :
        /\ SetBook(delete(Book, name))
        /\ result' = Call("delete", <<name>>, Return(None))
        /\ UNCHANGED Interpreter

PaginatedList ==
    \E page \in PageInputs, page_size \in PageSizeInputs :
        /\ result' = Call("paginated_list", <<page, page_size>>,
                          Return(paginated_list(_values, page, page_size)))
        /\ UNCHANGED <<heap, data, _values>>
        /\ UNCHANGED Interpreter

NextBook == AddRecord \/ AddRecordAgain \/ Find \/ Delete \/ PaginatedList

SpecBook == InitBook /\ [][NextBook]_vars

----------------------------------------------------------------------------
(* Assistant: parse_command and run.  parse_command yields [out, book,     *)
(* printed]: its outcome (the returned text or the exception), the book    *)
(* after it and the lines it printed itself.                               *)

PageSize == 5

TooManyMsg == <<"too many values to unpack (expected 2)">>
NotEnoughMsg(n) ==
    <<"not enough values to unpack (expected 2, got ">>
        \o (IF n = 0 THEN <<"0">> ELSE <<"1">>) \o <<")">>
IndexMsg == <<"list index out of range">>
ContactNotFoundMsg(name) == <<"Contact '">> \o name \o <<"' not found.">>

\* a, b = parts
Unpack2(parts) ==
    IF Len(parts) > 2 THEN Raise(ValueError, TooManyMsg)
    ELSE IF Len(parts) < 2 THEN Raise(ValueError, NotEnoughMsg(Len(parts)))
    ELSE Return(parts)

\* str.strip() of spaces
RECURSIVE Strip(_)
Strip(s) ==
    IF s = <<>> THEN s
    ELSE IF s[1] = SP THEN Strip(Tail(s))
    ELSE IF s[Len(s)] = SP THEN Strip(SubSeq(s, 1, Len(s) - 1))
    ELSE s

\* int(s) for a decimal literal: spaces around it and a sign are accepted
int(s) ==
    LET t == Strip(s)
        signed == t # <<>> /\ t[1] \in {"+", "-"}
        digits == IF signed THEN Tail(t) ELSE t
    IN  IF IsDigit(digits)
        THEN Return(<<IF signed /\ t[1] = "-" THEN 0 - DigitsValue(digits)
                      ELSE DigitsValue(digits)>>)
        ELSE Raise(ValueError, <<"invalid literal for int() with base 10: '">>
                                   \o s \o <<"'">>)

Reply(b, text) == [out |-> Return(text), book |-> b, printed |-> <<>>]
Fail(b, exc) == [out |-> exc, book |-> b, printed |-> <<>>]

\* Assistant.paginated_contacts
paginated_contacts(b, page, page_size) ==
    LET contacts == paginated_list(b.values, page, page_size)
    IN  IF ~Truthy(contacts) THEN <<"No contacts found on this page.">>
        ELSE Join(<<"\n">>,
                  [i \in 1..Len(contacts) |-> Record_str(b.heap[contacts[i]])])

\* command == 'hello'
cmd_hello(b, cmd) == Reply(b, <<"How can I help you?">>)

\* command.startswith('add ')
cmd_add(b, cmd) ==
    LET u == Unpack2(SplitSep(cmd, SP, 1))
    IN  IF Raised(u) THEN Fail(b, u)
        ELSE LET parts == SplitWs(u.val[2])
             IN  IF Len(parts) # 3
                 THEN Reply(b, <<"Give me name, phone, and birthday (if applicable)">>)
                 ELSE LET name == parts[1]
                          phone == parts[2]
                          birthday == parts[3]
                          b1 == add_record(New(b, Record_init(name, birthday)),
                                           NewId(b))
                          a == add_phone(b1.heap[b1.data[name]], phone)
                      IN  IF Raised(a.out) THEN Fail(b1, a.out)
                          ELSE Reply([b1 EXCEPT !.heap[b1.data[name]] = a.rec],
                                     <<"Added contact: ">> \o name \o <<", ">>
                                         \o phone \o <<", Birthday: ">> \o birthday)

\* command.startswith('change ')
cmd_change(b, cmd) ==
    LET u == Unpack2(SplitSep(cmd, SP, 1))
    IN  IF Raised(u) THEN Fail(b, u)
        ELSE IF ~Contains(u.val[2], SP)
        THEN Reply(b, <<"Give me name and phone please">>)
        ELSE LET v == Unpack2(SplitWs(u.val[2]))
             IN  IF Raised(v) THEN Fail(b, v)
                 ELSE LET name == v.val[1]
                          phone == v.val[2]
                          contact == find(b, name)
                      IN  IF ~Truthy(contact)
                          THEN Fail(b, Raise(ValueError, ContactNotFoundMsg(name)))
                          ELSE IF b.heap[contact[1]].phones = <<>>
                          THEN Fail(b, Raise(IndexError, IndexMsg))
                          ELSE LET e == edit_phone(b.heap[contact[1]],
                                                   b.heap[contact[1]].phones[1],
                                                   phone)
                               IN  IF Raised(e.out) THEN Fail(b, e.out)
                                   ELSE Reply([b EXCEPT !.heap[contact[1]] = e.rec],
                                              <<"Updated contact: ">> \o name
                                                  \o <<", ">> \o phone)

\* command.startswith('phone ')
cmd_phone(b, cmd) ==
    LET u == Unpack2(SplitSep(cmd, SP, 1))
    IN  IF Raised(u) THEN Fail(b, u)
        ELSE LET name == u.val[2]
                 contact == find(b, name)
             IN  IF ~Truthy(contact)
                 THEN Fail(b, Raise(ValueError, ContactNotFoundMsg(name)))
                 ELSE IF b.heap[contact[1]].phones = <<>>
                 THEN Fail(b, Raise(IndexError, IndexMsg))
                 ELSE Reply(b, <<"Phone number for ">> \o name \o <<": ">>
                                   \o b.heap[contact[1]].phones[1])

\* command == 'show all'
cmd_show_all(b, cmd) ==
    IF DOMAIN b.data = {} THEN Reply(b, <<"No users found">>)
    ELSE Reply(b, paginated_contacts(b, 1, PageSize))

\* command.startswith('show page '): `_, page_str = command.split(' ', 2)`,
\* then int(page_str) inside try ... except ValueError
cmd_show_page(b, cmd) ==
    LET u == Unpack2(SplitSep(cmd, SP, 2))
    IN  IF Raised(u) THEN Fail(b, u)
        ELSE LET page == int(u.val[2])
             IN  IF Raised(page) THEN Reply(b, <<"Invalid page number.">>)
                 ELSE IF page.val[1] <= 0 THEN Reply(b, <<"Invalid page number.">>)
                 ELSE Reply(b, paginated_contacts(b, page.val[1], PageSize))

\* command in ['good bye', 'close', 'exit']: print("Good bye!"); exit()
cmd_exit(b, cmd) ==
    [out |-> Raise(SystemExit, NoText), book |-> b, printed |-> << <<"Good bye!">> >>]

\* command in ['add', 'change']
cmd_bare_add_change(b, cmd) == Reply(b, <<"Give me name and phone please">>)

\* command == 'phone'
cmd_bare_phone(b, cmd) == Reply(b, <<"Give me name please">>)

\* else
cmd_unknown(b, cmd) == Fail(b, Raise(ValueError, <<"Unknown command.">>))

W_add == <<"a", "d", "d">>
W_change == <<"c", "h", "a", "n", "g", "e">>
W_phone == <<"p", "h", "o", "n", "e">>
W_show == <<"s", "h", "o", "w">>
W_all == <<"a", "l", "l">>
W_page == <<"p", "a", "g", "e">>
W_hello == <<"h", "e", "l", "l", "o">>
W_good == <<"g", "o", "o", "d">>
W_bye == <<"b", "y", "e">>
W_close == <<"c", "l", "o", "s", "e">>
W_exit == <<"e", "x", "i", "t">>
W_Hello == <<"H", "e", "l", "l", "o">>
W_EXIT == <<"E", "X", "I", "T">>

\* the words joined by single spaces
Words(ws) == Join(<<SP>>, ws)

\* the branch of the if/elif chain of parse_command that `cmd` (already
\* lower-cased) takes
Branch(cmd) ==
    IF cmd = W_hello THEN "hello"
    ELSE IF StartsWith(cmd, W_add \o <<SP>>) THEN "add"
    ELSE IF StartsWith(cmd, W_change \o <<SP>>) THEN "change"
    ELSE IF StartsWith(cmd, W_phone \o <<SP>>) THEN "phone"
    ELSE IF cmd = Words(<<W_show, W_all>>) THEN "show all"
    ELSE IF StartsWith(cmd, Words(<<W_show, W_page>>) \o <<SP>>) THEN "show page"
    ELSE IF cmd \in {Words(<<W_good, W_bye>>), W_close, W_exit} THEN "exit"
    ELSE IF cmd \in {W_add, W_change} THEN "bare add/change"
    ELSE IF cmd = W_phone THEN "bare phone"
    ELSE "unknown"

\* `except Exception` of run that would catch ValueError alone
Caught_ValueError_only(exc) == exc = ValueError

\* `except Exception` of run: every exception but those that derive from
\* BaseException alone
Caught(exc) == exc \notin {SystemExit, "KeyboardInterrupt", "GeneratorExit"}

----------------------------------------------------------------------------
(* Spec: the read-eval-print loop of Assistant.run, one step per line.     *)

One == <<"1">>
Two == <<"2">>
Zero == <<"0">>
Ex == <<"x">>

AddLines ==
    {Words(<<W_add, John, Phone1, GoodDate>>),
     Words(<<W_add, John, ShortPhone, GoodDate>>),
     Words(<<W_add, John, Phone1, NotADate>>),
     Words(<<W_add, Bob, Phone2, LeapDate>>),
     Words(<<W_add, Bob, AlphaPhone, NoSuchDay>>),
     Words(<<W_add, John, Phone1>>)}
ChangeLines ==
    {Words(<<W_change, John, Phone2>>),
     Words(<<W_change, John, ShortPhone>>),
     Words(<<W_change, Bob, Phone1>>),
     Words(<<W_change, John>>),
     Words(<<W_change, John>>) \o <<SP>>,
     Words(<<W_change, John, Phone2, Phone1>>)}
PhoneLines == {Words(<<W_phone, John>>), Words(<<W_phone, Bob>>)}
ShowLines ==
    {Words(<<W_show, W_all>>),
     Words(<<W_show, W_page, One>>), Words(<<W_show, W_page, Two>>),
     Words(<<W_show, W_page, Zero>>), Words(<<W_show, W_page, Ex>>)}
OtherLines ==
    {W_hello, W_Hello, W_add, W_change, W_phone, W_bye,
     W_exit, W_EXIT, W_close, Words(<<W_good, W_bye>>)}
Lines == AddLines \cup ChangeLines \cup PhoneLines \cup ShowLines \cup OtherLines

\* every line with `command = command.lower()` and the branch it takes
Inputs ==
    {[line |-> line, cmd |-> Lower(line), branch |-> Branch(Lower(line))] :
        line \in Lines}
InputsOf(branch) == {in \in Inputs : in.branch = branch}

Init ==
    /\ heap = EmptyBook.heap
    /\ data = EmptyBook.data
    /\ _values = EmptyBook.values
    /\ Idle
    /\ result = NoCall

\* one iteration of the loop of run on the line read, r being what
\* parse_command(line) did
Run(line, r) ==
    /\ command' = line
    /\ SetBook(r.book)
    /\ raised' = r.out.exc
    /\ IF ~Raised(r.out)
       THEN /\ output' = r.printed
                           \o (IF Truthy(r.out.val) THEN <<r.out.val>> ELSE <<>>)
            /\ running' = TRUE
       ELSE IF Caught(r.out.exc)
       THEN /\ output' = r.printed \o << <<"Error: ">> \o r.out.msg >>
            /\ running' = TRUE
       ELSE /\ output' = r.printed
            /\ running' = FALSE
    /\ UNCHANGED result

Hello ==
    \E in \in InputsOf("hello") :
        /\ running
        /\ Run(in.line, cmd_hello(Book, in.cmd))

Add ==
    \E in \in InputsOf("add") :
        /\ running
        /\ Len(_values) < MaxRecords
        /\ Run(in.line, cmd_add(Book, in.cmd))

Change ==
    \E in \in InputsOf("change") :
        /\ running
        /\ Run(in.line, cmd_change(Book, in.cmd))

PhoneOf ==
    \E in \in InputsOf("phone") :
        /\ running
        /\ Run(in.line, cmd_phone(Book, in.cmd))

ShowAll ==
    \E in \in InputsOf("show all") :
        /\ running
        /\ Run(in.line, cmd_show_all(Book, in.cmd))

ShowPage ==
    \E in \in InputsOf("show page") :
        /\ running
        /\ Run(in.line, cmd_show_page(Book, in.cmd))

Exit ==
    \E in \in InputsOf("exit") :
        /\ running
        /\ Run(in.line, cmd_exit(Book, in.cmd))

BareAddChange ==
    \E in \in InputsOf("bare add/change") :
        /\ running
        /\ Run(in.line, cmd_bare_add_change(Book, in.cmd))

BarePhone ==
    \E in \in InputsOf("bare phone") :
        /\ running
        /\ Run(in.line, cmd_bare_phone(Book, in.cmd))

Unknown ==
    \E in \in InputsOf("unknown") :
        /\ running
        /\ Run(in.line, cmd_unknown(Book, in.cmd))

Next ==
    \/ Hello \/ Add \/ Change \/ PhoneOf \/ ShowAll \/ ShowPage
    \/ Exit \/ BareAddChange \/ BarePhone \/ Unknown

Spec == Init /\ [][Next]_vars

----------------------------------------------------------------------------
(* Claims about Record, checked under SpecRecord.                          *)

\* a phone in the format of the specification: exactly 10 characters, all digits
TenDigits(s) == Len(s) = 10 /\ \A i \in 1..Len(s) : s[i] \in Digits

InvalidFormat(out) == out.exc = ValueError /\ out.msg = InvalidPhoneMsg
NotFound(out) == out.exc = ValueError /\ out.msg = PhoneNotFoundMsg

\* `after` is `before` with exactly its first element equal to old set to new
FirstReplaced(before, after, old, new) ==
    /\ Len(after) = Len(before)
    /\ \E i \in 1..Len(before) :
          /\ before[i] = old
          /\ \A j \in 1..(i - 1) : before[j] # old
          /\ after[i] = new
          /\ \A j \in 1..Len(before) : j # i => after[j] = before[j]

EditPhoneStep == result'.op = "edit_phone"
PhonesBefore == heap[TheRecord].phones
PhonesAfter == heap'[TheRecord].phones

\* C9 as stated: edit_phone(old, new) fails with InvalidFormat and changes
\* nothing whenever new is malformed; fails with NotFound and changes nothing
\* when no phone equals old; otherwise replaces exactly the first phone equal
\* to old by new.
C9_EditPhoneValidatesFirst ==
    [][EditPhoneStep =>
        LET old == result'.args[1]
            new == result'.args[2]
        IN  IF ~TenDigits(new)
            THEN InvalidFormat(result'.out) /\ PhonesAfter = PhonesBefore
            ELSE IF \A i \in 1..Len(PhonesBefore) : PhonesBefore[i] # old
            THEN NotFound(result'.out) /\ PhonesAfter = PhonesBefore
            ELSE /\ ~Raised(result'.out)
                 /\ FirstReplaced(PhonesBefore, PhonesAfter, old, new)]_vars

\* C9 amended: edit_phone(old, new) fails with NotFound and changes nothing
\* when no phone equals old, whether or not new is well formed; when a phone
\* equals old and new is malformed it fails with InvalidFormat and changes
\* nothing; otherwise exactly the first phone equal to old takes the value
\* new and the number, order and values of the other phones are unchanged.
C9_EditPhone ==
    [][EditPhoneStep =>
        LET old == result'.args[1]
            new == result'.args[2]
        IN  IF \A i \in 1..Len(PhonesBefore) : PhonesBefore[i] # old
            THEN NotFound(result'.out) /\ PhonesAfter = PhonesBefore
            ELSE IF ~TenDigits(new)
            THEN InvalidFormat(result'.out) /\ PhonesAfter = PhonesBefore
            ELSE /\ ~Raised(result'.out)
                 /\ FirstReplaced(PhonesBefore, PhonesAfter, old, new)]_vars

\* edit_phone(Phone1, Phone2) has replaced the first of two equal phones
C9_Witness ==
    /\ result.op = "edit_phone"
    /\ result.args = <<Phone1, Phone2>>
    /\ ~Raised(result.out)
    /\ heap[TheRecord].phones = <<Phone2, Phone1>>

----------------------------------------------------------------------------
(* Claims about AddressBook, checked under SpecBook.                       *)

Entries(name) == {i \in 1..Len(_values) : NameAt(i) = name}
LastEntry(name) == CHOOSE i \in Entries(name) : \A j \in Entries(name) : j <= i

\* C2 as stated: every key of the mapping corresponds to exactly one entry
\* of the ordered sequence, and every entry of the ordered sequence
\* corresponds to a key of the mapping.
C2_ViewsConsistent ==
    /\ \A name \in DOMAIN data : Cardinality(Entries(name)) = 1
    /\ \A i \in 1..Len(_values) : NameAt(i) \in DOMAIN data

\* C10: the keys of the mapping are exactly the names occurring in the
\* ordered sequence, the record the mapping holds for a key is the last
\* entry of the sequence with that name, find(name) returns that record (or
\* None when no entry has the name), and the mapping is empty exactly when
\* the sequence is.
C10_MappingIsLastEntry ==
    /\ DOMAIN data = {NameAt(i) : i \in 1..Len(_values)}
    /\ \A name \in DOMAIN data :
          Entries(name) # {} /\ data[name] = _values[LastEntry(name)]
    /\ (DOMAIN data = {}) <=> (_values = <<>>)
    /\ result.op = "find" =>
          result.out.val = IF Entries(result.args[1]) = {} THEN <<>>
                           ELSE <<_values[LastEntry(result.args[1])]>>

\* find(name) has returned the second of two different records of that name
C10_Witness ==
    /\ result.op = "find"
    /\ Len(_values) = 2
    /\ _values[1] # _values[2]
    /\ NameAt(1) = NameAt(2)
    /\ result.args = <<NameAt(2)>>
    /\ result.out.val = <<_values[2]>>

\* ceil(n / p)
CeilDiv(n, p) == (n + p - 1) \div p

RECURSIVE PagesUpTo(_, _)
\* paginated_list(1, p) + ... + paginated_list(last, p)
PagesUpTo(last, p) ==
    IF last = 0 THEN <<>>
    ELSE PagesUpTo(last - 1, p) \o paginated_list(_values, last, p)

\* C8: for every page size P >= 1 the pages 1..ceil(N/P) concatenated are the
\* ordered sequence, every page has at most P records, every page after
\* ceil(N/P) is empty, and a call paginated_list(page, P) with page >= 1
\* returns the records at positions (page-1)*P+1 .. page*P that exist.
C8_Pagination ==
    /\ \A p \in PageSizeInputs :
          LET last == CeilDiv(Len(_values), p)
          IN  /\ PagesUpTo(last, p) = _values
              /\ \A page \in 1..(last + 2) :
                    /\ Len(paginated_list(_values, page, p)) <= p
                    /\ page > last => paginated_list(_values, page, p) = <<>>
    /\ (result.op = "paginated_list" /\ result.args[1] >= 1) =>
          LET first == (result.args[1] - 1) * result.args[2]
              n == IF Len(_values) <= first THEN 0
                   ELSE IF Len(_values) - first < result.args[2]
                        THEN Len(_values) - first
                        ELSE result.args[2]
          IN  result.out.val = [i \in 1..n |-> _values[first + i]]

\* paginated_list(2, 2) on three records has returned the third alone
C8_Witness ==
    /\ result.op = "paginated_list"
    /\ result.args = <<2, 2>>
    /\ Len(_values) = 3
    /\ result.out.val = <<_values[3]>>

----------------------------------------------------------------------------
(* Claims about the command interpreter, checked under Spec.               *)

ErrorLine(message) == <<"Error: ">> \o message
\* what was printed is one `Error: <message>` line
IsErrorReply(printed) == Len(printed) = 1 /\ printed[1][1] = "Error: "

\* s without its first n characters
Drop(s, n) == SubSeq(s, n + 1, Len(s))

\* the text of a record as section 4.2 of the specification gives it
RecordLine(id) ==
    <<"Contact name: ">> \o heap[id].name \o <<", phones: ">>
        \o Join(<<"; ">>, heap[id].phones)
        \o (IF heap[id].birthday = <<>> THEN <<>>
            ELSE <<", Birthday: ">> \o heap[id].birthday[1])

\* C1 as stated: a command whose reply is `Error: <message>` leaves the
\* mapping, the ordered sequence and every record as they were; `add` with
\* a malformed phone replies `Error: Invalid phone number format` and adds
\* no contact.
C1_DiscardedOnFailure ==
    [][/\ IsErrorReply(output') =>
             <<heap', data', _values'>> = <<heap, data, _values>>
       /\ LET tokens == SplitWs(Lower(command'))
          IN  (Len(tokens) = 4 /\ tokens[1] = W_add /\ ~TenDigits(tokens[3])) =>
                  /\ output' = <<ErrorLine(<<"Invalid phone number format">>)>>
                  /\ Len(_values') = Len(_values)]_vars

\* C3 as stated: `show page <n>` replies with the records at positions
\* (n-1)*5 .. n*5-1 of the ordered sequence, one per line, or with `No
\* contacts found on this page.` when there are none, for a positive integer
\* n; with `Invalid page number.` otherwise; never with an `Error: ...` line.
C3_ShowPage ==
    LET prefix == Words(<<W_show, W_page>>) \o <<SP>>
        cmd == Lower(command)
        n == Drop(cmd, Len(prefix))
        positive == IsDigit(n) /\ DigitsValue(n) > 0
        first == (DigitsValue(n) - 1) * 5
        count == IF Len(_values) <= first THEN 0
                 ELSE IF Len(_values) - first < 5 THEN Len(_values) - first
                 ELSE 5
    IN  StartsWith(cmd, prefix) =>
            /\ ~IsErrorReply(output)
            /\ output = IF ~positive THEN << <<"Invalid page number.">> >>
                        ELSE IF count = 0
                        THEN << <<"No contacts found on this page.">> >>
                        ELSE <<Join(<<"\n">>, [i \in 1..count |->
                                                  RecordLine(_values[first + i])])>>

\* C4 as stated: `phone <name>` replies `Error: Contact '<name>' not found.`
\* when <name> is no key of the address book and `Phone number for <name>:
\* <p>`, <p> the contact's first phone, when it is; nothing else.
C4_PhoneReply ==
    LET prefix == W_phone \o <<SP>>
        cmd == Lower(command)
        name == Drop(cmd, Len(prefix))
    IN  StartsWith(cmd, prefix) =>
            IF name \notin DOMAIN data
            THEN output = <<ErrorLine(<<"Contact '">> \o name \o <<"' not found.">>)>>
            ELSE /\ heap[data[name]].phones # <<>>
                 /\ output = << <<"Phone number for ">> \o name \o <<": ">>
                                  \o heap[data[name]].phones[1] >>

\* a valid calendar date written YYYY-MM-DD
IsoDate(s) ==
    /\ Len(s) = 10
    /\ s[5] = "-" /\ s[8] = "-"
    /\ \A i \in {1, 2, 3, 4, 6, 7, 9, 10} : s[i] \in Digits
    /\ LET year == DigitsValue(SubSeq(s, 1, 4))
           month == DigitsValue(SubSeq(s, 6, 7))
           day == DigitsValue(SubSeq(s, 9, 10))
       IN  /\ year >= 1
           /\ month \in 1..12
           /\ day >= 1
           /\ day <= (IF month = 2
                      THEN (IF year % 4 = 0 /\ (year % 100 # 0 \/ year % 400 = 0)
                            THEN 29 ELSE 28)
                      ELSE IF month \in {4, 6, 9, 11} THEN 30 ELSE 31)

\* C5 as stated: Birthday construction validates, so no record of a
\* reachable address book holds a birthday that is not a valid YYYY-MM-DD
\* date.
C5_BirthdaysValid ==
    \A id \in DOMAIN heap :
        heap[id].birthday = <<>> \/ IsoDate(heap[id].birthday[1])

ExitCommands == {Words(<<W_good, W_bye>>), W_close, W_exit}

\* C6: a line is processed only while the loop runs; the loop ends on a line
\* exactly when the lower-cased line is `good bye`, `close` or `exit`, and
\* then `Good bye!` is all that is printed; a failure raised while
\* processing any other line is printed as one `Error: <message>` line and
\* the loop goes on.
C6_LoopEndsOnExitOnly ==
    [][/\ running
       /\ ~running' <=> Lower(command') \in ExitCommands
       /\ ~running' => output' = << <<"Good bye!">> >>
       /\ (raised' # "" /\ Lower(command') \notin ExitCommands) =>
             running' /\ IsErrorReply(output')]_vars

\* the loop has ended on the line `EXIT`, with contacts in the book
C6_Witness ==
    /\ ~running
    /\ command = W_EXIT
    /\ output = << <<"Good bye!">> >>
    /\ _values # <<>>

\* C7 as stated: `change <name> <phone>` with <name> a key of the address
\* book replies `Updated contact: <name>, <phone>` and replaces the first
\* phone of that contact, leaving every other contact as it was, when
\* <phone> is well formed, and a `phone <name>` right after it replies with
\* <phone>; with a malformed <phone> it replies `Error: Invalid phone number
\* format` and the phones are unchanged.
C7_ChangeFirstPhone ==
    [][/\ LET tokens == SplitWs(Lower(command'))
          IN  (/\ Len(tokens) = 3
               /\ Lower(command') = Words(tokens)
               /\ tokens[1] = W_change
               /\ tokens[2] \in DOMAIN data) =>
                 LET name == tokens[2]
                     phone == tokens[3]
                     id == data[name]
                 IN  IF TenDigits(phone)
                     THEN /\ output' = << <<"Updated contact: ">> \o name
                                            \o <<", ">> \o phone >>
                          /\ heap[id].phones # <<>>
                          /\ heap'[id].phones = <<phone>> \o Tail(heap[id].phones)
                          /\ \A other \in DOMAIN heap \ {id} :
                                heap'[other] = heap[other]
                          /\ data' = data /\ _values' = _values
                     ELSE /\ output' = <<ErrorLine(<<"Invalid phone number format">>)>>
                          /\ heap' = heap
       /\ LET before == SplitWs(Lower(command))
          IN  (/\ Len(before) = 3
               /\ before[1] = W_change
               /\ output = << <<"Updated contact: ">> \o before[2]
                                \o <<", ">> \o before[3] >>
               /\ Lower(command') = Words(<<W_phone, before[2]>>)) =>
                 output' = << <<"Phone number for ">> \o before[2] \o <<": ">>
                                \o before[3] >>]_vars

====
